---- MODULE Spec2Model ----
(***************************************************************************)
(* The macOS backend of desktop-notifier (src/desktop_notifier/macos.py):  *)
(* CocoaNotificationCenter, its NotificationCenterDelegate, and the        *)
(* UNUserNotificationCenter they talk to.                                  *)
(*                                                                         *)
(* A Python string is modelled by a sequence of segments: a segment is     *)
(* either one of the characters repr() treats specially (a single quote,   *)
(* a double quote, a backslash) or a run of ordinary characters.  PyStr    *)
(* gives the string itself, as a TLA+ string.                              *)
(***************************************************************************)
EXTENDS Integers, Sequences, FiniteSets, TLC

\* ------------------------------------------------------------ bounds
MaxSends == 2       \* send calls in one run
MaxRemovals == 1    \* removal requests the OS holds unprocessed at a time
MaxButtons == 2     \* buttons of a notification shape given to category_id
MaxAuthRequests == 2   \* authorisation requests the OS holds unanswered at a time

\* --------------------------------------------------------- constants
UNNotificationDefaultActionIdentifier == "com.apple.UNNotificationDefaultActionIdentifier"
UNNotificationDismissActionIdentifier == "com.apple.UNNotificationDismissActionIdentifier"
ReplyActionIdentifier == "com.desktop-notifier.ReplyActionIdentifier"

UNAuthorizationStatusAuthorized == 2
UNAuthorizationStatusProvisional == 3
UNAuthorizationStatusEphemeral == 4

\* Python's None, and the absence of a notification_to_replace.
None == "<None>"

\* --------------------------------------------------- Python strings
SQ == "'"
DQ == "\""
BS == "\\"

RECURSIVE PyStr(_)
PyStr(segs) == IF segs = << >> THEN "" ELSE Head(segs) \o PyStr(Tail(segs))

HasSeg(segs, c) == \E i \in 1..Len(segs) : segs[i] = c

\* repr() of a str: double quotes when the string holds a single quote and
\* no double quote, single quotes otherwise; the backslash and the quote in
\* use are escaped.
PyQuote(segs) == IF HasSeg(segs, SQ) /\ ~HasSeg(segs, DQ) THEN DQ ELSE SQ

RECURSIVE PyEscape(_, _)
PyEscape(segs, q) ==
    IF segs = << >> THEN ""
    ELSE (IF Head(segs) = BS \/ Head(segs) = q THEN BS \o Head(segs) ELSE Head(segs))
         \o PyEscape(Tail(segs), q)

PyReprStr(segs) == PyQuote(segs) \o PyEscape(segs, PyQuote(segs)) \o PyQuote(segs)

\* repr() of a tuple of str: "()", "(x,)", "(x, y)".
RECURSIVE PyJoinRepr(_)
PyJoinRepr(titles) ==
    IF titles = << >> THEN ""
    ELSE IF Len(titles) = 1 THEN PyReprStr(Head(titles))
    ELSE PyReprStr(Head(titles)) \o ", " \o PyJoinRepr(Tail(titles))

PyReprTuple(titles) ==
    IF Len(titles) = 1 THEN "(" \o PyJoinRepr(titles) \o ",)"
    ELSE "(" \o PyJoinRepr(titles) \o ")"

PyFormatBool(b) == IF b THEN "True" ELSE "False"

category_id_without_reply_field(buttons, reply_field) ==
    IF ~(buttons # << >> \/ reply_field) THEN None
    ELSE "desktop-notifier: buttons=" \o PyReprTuple(buttons)

\* _create_category_for_notification, lines 273-278: the category key of a
\* notification with these button titles (in order) and this reply_field.
category_id(buttons, reply_field) ==
    IF ~(buttons # << >> \/ reply_field) THEN None
    ELSE "desktop-notifier: buttons=" \o PyReprTuple(buttons)
         \o ", reply_field=" \o PyFormatBool(reply_field)

\* ------------------------------------------------------ notifications
\* The Notification objects of the run.  buttons lists the titles of the
\* button mapping in order (every title has a callback); on_clicked,
\* on_dismissed and on_replied say whether that callback is set.
Yes == <<"Yes">>
Notifications == {"n1", "n2", "n3"}
NotificationData ==
    [n \in Notifications |->
        CASE n = "n1" -> [buttons |-> << >>, reply_field |-> FALSE,
                          on_clicked |-> TRUE, on_dismissed |-> FALSE,
                          on_replied |-> FALSE]
          [] n = "n2" -> [buttons |-> <<Yes, <<UNNotificationDefaultActionIdentifier>>,
                                        <<UNNotificationDismissActionIdentifier>>,
                                        <<ReplyActionIdentifier>> >>,
                          reply_field |-> FALSE,
                          on_clicked |-> TRUE, on_dismissed |-> TRUE,
                          on_replied |-> FALSE]
          [] n = "n3" -> [buttons |-> << <<ReplyActionIdentifier>>,
                                         <<UNNotificationDefaultActionIdentifier>> >>,
                          reply_field |-> TRUE,
                          on_clicked |-> FALSE, on_dismissed |-> FALSE,
                          on_replied |-> TRUE]]

\* Action identifiers the OS reports in a response.
ActionIdentifiers ==
    {UNNotificationDefaultActionIdentifier, UNNotificationDismissActionIdentifier,
     ReplyActionIdentifier, "Yes", "No"}

\* str(uuid.uuid4()): the k-th value drawn; distinct draws give distinct values.
Uuid(k) == "uuid-" \o ToString(k)
\* An identifier the OS still holds from an earlier run of the process.
StaleId == "uuid-stale"
PlatformIds == {Uuid(k) : k \in 1..MaxSends}

\* Categories registered by other processes sharing the OS category set.
OtherCategories == {"other-process: category"}

\* What addNotificationRequest hands its completion handler: nil, or an NSError.
Nil == [nil |-> TRUE, localizedDescription |-> ""]
NSErrors == {[nil |-> FALSE, localizedDescription |-> "rejected"]}

AuthorizationStatuses == 0..4

VARIABLES
    constructed,        \* CocoaNotificationCenter.__init__ has run
    pc,                 \* where the calling thread is inside a blocking call
    call,               \* locals of the _send in progress
    future,             \* the Future the call waits on, or last waited on
    lookup,             \* self._notification_for_nid
    identifier,         \* Notification.identifier of each notification
    nextUuid,           \* uuid4 values drawn so far
    sendCount,          \* send calls made so far
    osCategories,       \* category identifiers registered with the OS
    osRequests,         \* notification requests the OS holds, by identifier
    osRemovalQueue,     \* removal requests the OS has not processed yet
    osCallback,         \* the completion handler the OS has still to call
    op,                 \* the backend operation last started
    osCalls,            \* the OS calls that operation has issued so far
    result,             \* how that operation ended
    returnedIds,        \* every platform identifier a send has returned
    registered,         \* the categories this backend has registered, in order
    delegate,           \* what the delegate did with the last response
    osAuthRequests,     \* authorisation requests the OS has not answered yet
    authCompleted,      \* what on_auth_completed did with the last answer
    shapeA, shapeB,     \* two notification shapes given to category_id
    keyA, keyB          \* their category keys

vars == <<constructed, pc, call, future, lookup, identifier, nextUuid, sendCount,
          osCategories, osRequests, osRemovalQueue, osCallback,
          op, osCalls, result, returnedIds, registered, delegate,
          osAuthRequests, authCompleted, shapeA, shapeB, keyA, keyB>>

backendVars == <<constructed, pc, call, future, lookup, identifier, nextUuid,
                 sendCount,
                 op, osCalls, result, returnedIds, registered>>
\* backendVars without the Future a completion handler sets.
callerVars == <<constructed, pc, call, lookup, identifier, nextUuid, sendCount,
                op, osCalls, result, returnedIds, registered>>
osVars == <<osCategories, osRequests, osRemovalQueue, osCallback>>
authVars == <<osAuthRequests, authCompleted>>
keyVars == <<shapeA, shapeB, keyA, keyB>>

NoCall == [notification |-> None, notification_to_replace |-> None,
           platform_nid |-> None, category_id |-> None]
NoFuture == [state |-> "none", value |-> None]
PendingFuture == [state |-> "pending", value |-> None]
NoResult == [kind |-> "none", value |-> None]
NoResponse == [handled |-> FALSE, nid |-> None, actionIdentifier |-> None,
               notification |-> None, invoked |-> << >>, error |-> None, completions |-> 0]
NoAuthCompleted == [handled |-> FALSE, callback |-> FALSE, granted |-> FALSE,
                    error |-> Nil, invoked |-> << >>]
EmptyShape == [buttons |-> << >>, reply_field |-> FALSE]
\* A category key not computed yet.
Unresolved == "<unresolved>"

\* Button titles given to category_id: plain ones, the empty one, and ones
\* holding the quotes, commas and backslashes that repr() writes itself.
TitlePool ==
    { <<"a">>, <<"b">>, << >>,
      <<"a", SQ, ", ", SQ, "b">>,
      <<"a", DQ, ", ", DQ, "b">>,
      <<SQ, DQ, BS>> }

\* The button titles of a mapping are distinct strings, in insertion order.
ButtonLists ==
    UNION { { t \in [1..k -> TitlePool] :
                \A i, j \in 1..k : i # j => PyStr(t[i]) # PyStr(t[j]) }
            : k \in 0..MaxButtons }

Shapes == [buttons : ButtonLists, reply_field : BOOLEAN]

set_result_never(value) == PendingFuture

\* future.set_result in a completion handler (lines 182, 248, 330): the
\* Future the call waits on is done, with the value the OS handed over.
set_result(value) == [state |-> "done", value |-> value]

BackendInit ==
    /\ constructed = FALSE
    /\ pc = "idle"
    /\ call = NoCall
    /\ future = NoFuture
    /\ lookup = << >>
    /\ identifier = [n \in Notifications |-> None]
    /\ nextUuid = 0
    /\ sendCount = 0
    /\ osCategories = {}
    /\ osRequests = << >>
    /\ osRemovalQueue = << >>
    /\ osCallback = None
    /\ op = None
    /\ osCalls = << >>
    /\ result = NoResult
    /\ returnedIds = {}
    /\ registered = << >>
    /\ delegate = NoResponse
    /\ osAuthRequests = << >>
    /\ authCompleted = NoAuthCompleted

Init ==
    /\ BackendInit
    /\ shapeA = EmptyShape
    /\ shapeB = EmptyShape
    /\ keyA = Unresolved
    /\ keyB = Unresolved

\* ------------------------------------------------------- construction
\* __init__, lines 134-140: registers the delegate and calls
\* _clear_notification_categories (lines 341-342), which sets the empty set.
Construct ==
    /\ ~constructed
    /\ constructed' = TRUE
    /\ op' = "__init__"
    /\ osCalls' = << <<"setNotificationCategories", {}>> >>
    /\ osCategories' = {}
    /\ result' = [kind |-> "returned", value |-> None]
    /\ UNCHANGED <<sendCount, pc, call, future, lookup, identifier, nextUuid,
                   returnedIds, registered,
                   osRequests, osRemovalQueue, osCallback,
                   delegate, authVars, keyVars>>

\* --------------------------------------------------------------- send
AuthorizedOnlyWhenAuthorized(authorizationStatus) ==
    authorizationStatus = UNAuthorizationStatusAuthorized

\* has_authorisation, lines 188-192.
Authorized(authorizationStatus) ==
    authorizationStatus \in {UNAuthorizationStatusAuthorized,
                             UNAuthorizationStatusProvisional,
                             UNAuthorizationStatusEphemeral}

NotAuthorisedNever(has_authorisation) == FALSE

\* _send, lines 210-211: whether the call stops with "Not authorised".
NotAuthorised(has_authorisation) == ~has_authorisation

ChoosePlatformNidAlwaysFresh(notification_to_replace_identifier, fresh_uuid) ==
    fresh_uuid

\* _send, lines 213-216: the identifier the request is submitted under.
\* str() of an identifier that already is a str is that str.
ChoosePlatformNid(notification_to_replace_identifier, fresh_uuid) ==
    IF notification_to_replace_identifier # None
    THEN notification_to_replace_identifier
    ELSE fresh_uuid

\* _send handler, lines 246-247.
ErrorDescription(ns_error) ==
    IF ~ns_error.nil THEN ns_error.localizedDescription ELSE ""

SendOutcomeNeverRaises(error, platform_nid) ==
    [kind |-> "returned", value |-> platform_nid]

SendOutcomeReturnsError(error, platform_nid) ==
    IF error # "" THEN [kind |-> "raised", value |-> error]
    ELSE [kind |-> "returned", value |-> error]

\* _send, lines 257-260.
SendOutcome(error, platform_nid) ==
    IF error # "" THEN [kind |-> "raised", value |-> error]
    ELSE [kind |-> "returned", value |-> platform_nid]

RegisterCategoryAlways(new_category_id, category_ids) == TRUE

\* _create_category_for_notification, line 287: whether the category is
\* registered, given the identifiers the query returned.
RegisterCategory(new_category_id, category_ids) ==
    new_category_id \notin category_ids

\* _create_category_for_notification, lines 310-317: categories.setByAddingObject.
NewCategories(categories, new_category_id) == categories \cup {new_category_id}

\* The notifications a caller may name as the one to replace: those a send
\* has returned an identifier for.  (The caller's choice is not in macos.py;
\* this follows the specification: "a previously sent Notification".)
Replaceable == {m \in Notifications : identifier[m] # None}

\* send(notification, notification_to_replace) is called; _send evaluates
\* self.has_authorisation (lines 177-186): a Future, the settings query, and
\* the wait on future.result().
Send(n, r) ==
    /\ constructed
    /\ pc = "idle"
    /\ r \in Replaceable \cup {None}
    /\ sendCount < MaxSends
    /\ sendCount' = sendCount + 1
    /\ op' = "send"
    /\ call' = [NoCall EXCEPT !.notification = n, !.notification_to_replace = r]
    /\ future' = PendingFuture
    /\ osCalls' = << <<"getNotificationSettingsWithCompletionHandler", None>> >>
    /\ osCallback' = "settings"
    /\ result' = NoResult
    /\ pc' = "has_authorisation"
    /\ UNCHANGED <<constructed, lookup, identifier, nextUuid, returnedIds, registered,
                   osCategories, osRequests, osRemovalQueue,
                   delegate, authVars, keyVars>>

\* The OS calls has_authorisation's handler (lines 179-182) with settings
\* whose authorizationStatus is what the user has granted by then.
OSSettingsCallback(authorizationStatus) ==
    /\ osCallback = "settings"
    /\ future.state = "pending"
    /\ future' = set_result(authorizationStatus)
    /\ osCallback' = None
    /\ UNCHANGED <<callerVars, osCategories, osRequests,
                   osRemovalQueue, delegate, authVars, keyVars>>

\* _send, lines 239-253: builds the request and posts it, then waits.
PostRequest(platform_nid, cid, calls) ==
    /\ call' = [call EXCEPT !.platform_nid = platform_nid, !.category_id = cid]
    /\ future' = PendingFuture
    /\ osCalls' = Append(calls, <<"addNotificationRequest", platform_nid>>)
    /\ osCallback' = "add"
    /\ pc' = "addNotificationRequest"

\* future.result() returns in has_authorisation; _send goes on (lines
\* 210-220, and 273-283 of _create_category_for_notification) up to the next
\* wait: the category query, or the posted request when there is no category.
SendAfterAuthorisation ==
    /\ op = "send"
    /\ pc = "has_authorisation"
    /\ future.state = "done"
    /\ LET n == call.notification
           r == call.notification_to_replace
           platform_nid ==
               ChoosePlatformNid(IF r = None THEN None ELSE identifier[r],
                                 Uuid(nextUuid + 1))
           cid == category_id(NotificationData[n].buttons,
                              NotificationData[n].reply_field)
       IN IF NotAuthorised(Authorized(future.value))
          THEN /\ result' = [kind |-> "raised", value |-> "Not authorised"]
               /\ pc' = "idle"
               /\ UNCHANGED <<call, future, osCalls, osCallback, nextUuid>>
          ELSE /\ nextUuid' = IF r = None THEN nextUuid + 1 ELSE nextUuid
               /\ result' = result
               /\ IF cid = None
                  THEN PostRequest(platform_nid, cid, osCalls)
                  ELSE /\ call' = [call EXCEPT !.platform_nid = platform_nid,
                                               !.category_id = cid]
                       /\ future' = PendingFuture
                       /\ osCalls' = Append(osCalls,
                              <<"getNotificationCategoriesWithCompletionHandler", None>>)
                       /\ osCallback' = "categories"
                       /\ pc' = "_get_notification_categories"
    /\ UNCHANGED <<sendCount, constructed, op, lookup, identifier, returnedIds, registered,
                   osCategories, osRequests, osRemovalQueue, delegate, authVars, keyVars>>

\* The OS calls _get_notification_categories' handler (lines 327-330).
OSCategoriesCallback ==
    /\ osCallback = "categories"
    /\ future.state = "pending"
    /\ future' = set_result(osCategories)
    /\ osCallback' = None
    /\ UNCHANGED <<callerVars, osCategories, osRequests,
                   osRemovalQueue, delegate, authVars, keyVars>>

\* _get_notification_categories returns; lines 284-320 register the category
\* when its key is not among those returned, and _send posts the request.
SendAfterCategories ==
    /\ pc = "_get_notification_categories"
    /\ future.state = "done"
    /\ LET categories == future.value
           cid == call.category_id
       IN IF RegisterCategory(cid, categories)
          THEN /\ osCategories' = NewCategories(categories, cid)
               /\ registered' = Append(registered, cid)
               /\ PostRequest(call.platform_nid, cid,
                      Append(osCalls, <<"setNotificationCategories",
                                        NewCategories(categories, cid)>>))
          ELSE /\ osCategories' = osCategories
               /\ registered' = registered
               /\ PostRequest(call.platform_nid, cid, osCalls)
    /\ UNCHANGED <<sendCount, constructed, op, result, lookup, identifier, nextUuid,
                   returnedIds, osRequests, osRemovalQueue,
                   delegate, authVars, keyVars>>

\* The OS takes the posted request, or rejects it with an NSError, and calls
\* _send's handler (lines 245-248).  A request posted under an identifier
\* the OS already holds replaces that request.
OSAddCallback(ns_error) ==
    /\ osCallback = "add"
    /\ future.state = "pending"
    /\ future' = set_result(ErrorDescription(ns_error))
    /\ osCallback' = None
    /\ osRequests' =
          IF ns_error = Nil
          THEN (call.platform_nid :> [delivered |-> FALSE]) @@ osRequests
          ELSE osRequests
    /\ UNCHANGED <<callerVars, osCategories, osRemovalQueue,
                   delegate, authVars, keyVars>>

\* What send does with the identifier _send returned: it becomes a key of
\* the lookup, mapped to the notification, and the notification's identifier.
\* (The caller of _send is not in macos.py; this follows the specification.)
SendRecords(platform_nid, notification) ==
    /\ lookup' = (platform_nid :> notification) @@ lookup
    /\ identifier' = [identifier EXCEPT ![notification] = platform_nid]
    /\ returnedIds' = returnedIds \cup {platform_nid}

\* future.result() returns in _send (lines 255-260), and _send returns the
\* identifier or raises.
SendReturn ==
    /\ pc = "addNotificationRequest"
    /\ future.state = "done"
    /\ result' = SendOutcome(future.value, call.platform_nid)
    /\ IF result'.kind = "returned"
       THEN SendRecords(result'.value, call.notification)
       ELSE UNCHANGED <<lookup, identifier, returnedIds>>
    /\ pc' = "idle"
    /\ UNCHANGED <<sendCount, constructed, op, call, future, osCalls, nextUuid,
                   registered,
                   osVars, delegate, authVars, keyVars>>

\* ---------------------------------------------------- has_authorisation
\* The caller reads the has_authorisation property itself (lines 177-186):
\* a Future, the settings query, and the wait on future.result().
HasAuthorisation ==
    /\ constructed
    /\ pc = "idle"
    /\ op' = "has_authorisation"
    /\ call' = NoCall
    /\ future' = PendingFuture
    /\ osCalls' = << <<"getNotificationSettingsWithCompletionHandler", None>> >>
    /\ osCallback' = "settings"
    /\ result' = NoResult
    /\ pc' = "has_authorisation"
    /\ UNCHANGED <<sendCount, constructed, lookup, identifier, nextUuid,
                   returnedIds, registered,
                   osCategories, osRequests, osRemovalQueue,
                   delegate, authVars, keyVars>>

\* future.result() returns in has_authorisation, and the property returns
\* whether the status is one of the three that grant (lines 186-196).
HasAuthorisationReturn ==
    /\ op = "has_authorisation"
    /\ pc = "has_authorisation"
    /\ future.state = "done"
    /\ result' = [kind |-> "returned", value |-> Authorized(future.value)]
    /\ pc' = "idle"
    /\ UNCHANGED <<sendCount, constructed, op, call, future, osCalls, lookup,
                   identifier, nextUuid, returnedIds, registered, osVars,
                   delegate, authVars, keyVars>>

\* ------------------------------------------------ request_authorisation
on_auth_completed_on_error_only(callback, granted, ns_error) ==
    IF callback /\ ~ns_error.nil
    THEN << <<granted, ErrorDescription(ns_error)>> >>
    ELSE << >>

\* on_auth_completed, lines 157-162: the calls of the caller's callback, with
\* their arguments; callback says whether the caller supplied one.
on_auth_completed(callback, granted, ns_error) ==
    IF callback
    THEN << <<granted, ErrorDescription(ns_error)>> >>
    ELSE << >>

\* request_authorisation, lines 142-169: hands the OS the request with
\* on_auth_completed as its completion handler, and returns.
RequestAuthorisation(callback) ==
    /\ constructed
    /\ pc = "idle"
    /\ Len(osAuthRequests) < MaxAuthRequests
    /\ op' = "request_authorisation"
    /\ osCalls' = << <<"requestAuthorizationWithOptions", None>> >>
    /\ osAuthRequests' = Append(osAuthRequests, [callback |-> callback])
    /\ result' = [kind |-> "returned", value |-> None]
    /\ UNCHANGED <<sendCount, constructed, pc, call, future, lookup, identifier,
                   nextUuid, returnedIds, registered, osVars, delegate,
                   authCompleted, keyVars>>

\* The OS answers the oldest authorisation request: it calls that request's
\* on_auth_completed with whether the user granted, and nil or an NSError.
OSAuthCompleted(granted, ns_error) ==
    /\ osAuthRequests # << >>
    /\ osAuthRequests' = Tail(osAuthRequests)
    /\ authCompleted' =
          [handled |-> TRUE, callback |-> Head(osAuthRequests).callback,
           granted |-> granted, error |-> ns_error,
           invoked |-> on_auth_completed(Head(osAuthRequests).callback,
                                         granted, ns_error)]
    /\ UNCHANGED <<backendVars, osVars, delegate, keyVars>>

\* ---------------------------------------------------------- clear_all
ClearAllCallsAlsoPending ==
    << <<"removeAllDeliveredNotifications", None>>,
       <<"removeAllPendingNotificationRequests", None>> >>

\* _clear_all, line 361: the OS calls it makes.
ClearAllCalls == << <<"removeAllDeliveredNotifications", None>> >>

\* What a call does to the removal requests the OS has queued.
Enqueue(queue, calls) == queue \o calls

\* _clear_all, lines 352-361: asks for the removal and returns.
ClearAll ==
    /\ constructed
    /\ pc = "idle"
    /\ Len(osRemovalQueue) < MaxRemovals
    /\ op' = "clear_all"
    /\ osCalls' = ClearAllCalls
    /\ osRemovalQueue' = Enqueue(osRemovalQueue, ClearAllCalls)
    /\ result' = [kind |-> "returned", value |-> None]
    /\ UNCHANGED <<sendCount, constructed, pc, call, future, lookup, identifier, nextUuid,
                   returnedIds, registered, osCategories, osRequests,
                   osCallback, delegate, authVars, keyVars>>

\* -------------------------------------------------------------- clear
ClearCallsRemoveAll(notification_identifier) == ClearAllCalls

\* _clear, line 350: the OS call it makes, with the one identifier in the
\* list it passes.
ClearCalls(notification_identifier) ==
    << <<"removeDeliveredNotificationsWithIdentifiers", notification_identifier>> >>

\* _clear, lines 344-350, for a notification a send has returned an
\* identifier for: asks for the removal and returns.
Clear(n) ==
    /\ constructed
    /\ pc = "idle"
    /\ n \in Replaceable
    /\ Len(osRemovalQueue) < MaxRemovals
    /\ op' = "clear"
    /\ call' = [NoCall EXCEPT !.notification = n]
    /\ osCalls' = ClearCalls(identifier[n])
    /\ osRemovalQueue' = Enqueue(osRemovalQueue, ClearCalls(identifier[n]))
    /\ result' = [kind |-> "returned", value |-> None]
    /\ UNCHANGED <<sendCount, constructed, pc, future, lookup, identifier, nextUuid,
                   returnedIds, registered, osCategories, osRequests,
                   osCallback, delegate, authVars, keyVars>>

\* ------------------------------------------------------------- the OS
Delivered == {i \in DOMAIN osRequests : osRequests[i].delivered}

Restrict(f, S) == [x \in S |-> f[x]]

\* The OS carries out the removal request at the head of its queue.
OSProcessRemoval ==
    /\ osRemovalQueue # << >>
    /\ osRemovalQueue' = Tail(osRemovalQueue)
    /\ osRequests' =
          CASE Head(osRemovalQueue)[1] = "removeAllDeliveredNotifications" ->
                   Restrict(osRequests, DOMAIN osRequests \ Delivered)
            [] Head(osRemovalQueue)[1] = "removeAllPendingNotificationRequests" ->
                   Restrict(osRequests, Delivered)
            [] Head(osRemovalQueue)[1] = "removeDeliveredNotificationsWithIdentifiers" ->
                   Restrict(osRequests,
                            DOMAIN osRequests \ (Delivered \cap {Head(osRemovalQueue)[2]}))
            [] OTHER -> osRequests
    /\ UNCHANGED <<backendVars, osCategories, osCallback,
                   delegate, authVars, keyVars>>

\* The OS delivers a request it holds (trigger=None: as soon as it can).
OSDeliver(i) ==
    /\ i \in DOMAIN osRequests
    /\ ~osRequests[i].delivered
    /\ osRequests' = [osRequests EXCEPT ![i].delivered = TRUE]
    /\ UNCHANGED <<backendVars, osCategories, osRemovalQueue,
                   osCallback, delegate, authVars, keyVars>>

\* Another process sharing the OS category set registers a category.
OtherProcessRegisters(c) ==
    /\ c \notin osCategories
    /\ osCategories' = osCategories \cup {c}
    /\ UNCHANGED <<backendVars, osRequests, osRemovalQueue,
                   osCallback, delegate, authVars, keyVars>>

\* ----------------------------------------------------------- delegate
\* lines 81-82: self.interface._notification_for_nid[platform_nid]; a key
\* the mapping does not hold raises KeyError.
HasKey(mapping, key) == key \in DOMAIN mapping

\* The index among buttons of the title equal to the string, 0 when none.
ButtonIndex(buttons, action_id_str) ==
    IF \E i \in 1..Len(buttons) : PyStr(buttons[i]) = action_id_str
    THEN CHOOSE i \in 1..Len(buttons) : PyStr(buttons[i]) = action_id_str
    ELSE 0

DispatchButtonsFirst(py_notification, actionIdentifier) ==
    IF ButtonIndex(py_notification.buttons, actionIdentifier) # 0
    THEN << <<"buttons", actionIdentifier>> >>
    ELSE IF actionIdentifier = UNNotificationDefaultActionIdentifier
    THEN (IF py_notification.on_clicked THEN << <<"on_clicked", None>> >> ELSE << >>)
    ELSE IF actionIdentifier = UNNotificationDismissActionIdentifier
    THEN (IF py_notification.on_dismissed THEN << <<"on_dismissed", None>> >> ELSE << >>)
    ELSE IF actionIdentifier = ReplyActionIdentifier
    THEN (IF py_notification.on_replied THEN << <<"on_replied", None>> >> ELSE << >>)
    ELSE << >>

DispatchFallsThrough(py_notification, actionIdentifier) ==
    (IF actionIdentifier = UNNotificationDefaultActionIdentifier
     THEN (IF py_notification.on_clicked THEN << <<"on_clicked", None>> >> ELSE << >>)
     ELSE IF actionIdentifier = UNNotificationDismissActionIdentifier
     THEN (IF py_notification.on_dismissed THEN << <<"on_dismissed", None>> >> ELSE << >>)
     ELSE IF actionIdentifier = ReplyActionIdentifier
     THEN (IF py_notification.on_replied THEN << <<"on_replied", None>> >> ELSE << >>)
     ELSE << >>)
    \o (IF ButtonIndex(py_notification.buttons, actionIdentifier) # 0
        THEN << <<"buttons", actionIdentifier>> >>
        ELSE << >>)

\* lines 86-108: the callbacks the delegate invokes for an action identifier
\* on the notification with these fields, in order.
Dispatch(py_notification, actionIdentifier) ==
    IF actionIdentifier = UNNotificationDefaultActionIdentifier
    THEN (IF py_notification.on_clicked THEN << <<"on_clicked", None>> >> ELSE << >>)
    ELSE IF actionIdentifier = UNNotificationDismissActionIdentifier
    THEN (IF py_notification.on_dismissed THEN << <<"on_dismissed", None>> >> ELSE << >>)
    ELSE IF actionIdentifier = ReplyActionIdentifier
    THEN (IF py_notification.on_replied THEN << <<"on_replied", None>> >> ELSE << >>)
    ELSE (IF ButtonIndex(py_notification.buttons, actionIdentifier) # 0
          THEN << <<"buttons", actionIdentifier>> >>
          ELSE << >>)

\* userNotificationCenter_didReceiveNotificationResponse_withCompletionHandler_,
\* lines 76-110, for a response the OS delivers about the request nid
\* with the given action identifier; callback_raises says whether the callback
\* invoked, if any, raises.  An exception leaves the method at once.
DidReceiveNotificationResponse(nid, actionIdentifier, callback_raises) ==
    /\ constructed
    /\ nid \in Delivered \cup {StaleId}
    /\ delegate' =
          IF ~HasKey(lookup, nid)
          THEN [handled |-> TRUE, nid |-> nid, actionIdentifier |-> actionIdentifier,
                notification |-> None,
                invoked |-> << >>, error |-> "KeyError", completions |-> 0]
          ELSE LET invoked == Dispatch(NotificationData[lookup[nid]], actionIdentifier)
               IN IF invoked # << >> /\ callback_raises
                  THEN [handled |-> TRUE, nid |-> nid,
                        actionIdentifier |-> actionIdentifier,
                        notification |-> lookup[nid],
                        invoked |-> invoked, error |-> "CallbackError",
                        completions |-> 0]
                  ELSE [handled |-> TRUE, nid |-> nid,
                        actionIdentifier |-> actionIdentifier,
                        notification |-> lookup[nid],
                        invoked |-> invoked, error |-> None, completions |-> 1]
    /\ UNCHANGED <<backendVars, osVars, authVars, keyVars>>

\* ----------------------------------------------------- specifications
\* send, with the OS's answers to it.
SendSteps ==
    \/ \E n \in Notifications, r \in Notifications \cup {None} : Send(n, r)
    \/ \E s \in AuthorizationStatuses : OSSettingsCallback(s)
    \/ SendAfterAuthorisation
    \/ OSCategoriesCallback
    \/ SendAfterCategories
    \/ \E e \in NSErrors \cup {Nil} : OSAddCallback(e)
    \/ SendReturn

\* The backend sending and clearing, beside the OS delivering and removing
\* and other processes registering categories.
Next ==
    \/ Construct
    \/ SendSteps
    \/ ClearAll
    \/ \E i \in PlatformIds : OSDeliver(i)
    \/ OSProcessRemoval
    \/ \E c \in OtherCategories : OtherProcessRegisters(c)

Spec == Init /\ [][Next]_vars

\* The backend and the user's interactions with delivered notifications.  A
\* response reads the lookup and changes nothing but the delegate's record.
NextDelegate ==
    \/ Construct
    \/ SendSteps
    \/ \E i \in PlatformIds : OSDeliver(i)
    \/ \E nid \in PlatformIds \cup {StaleId}, a \in ActionIdentifiers,
          callback_raises \in BOOLEAN :
          DidReceiveNotificationResponse(nid, a, callback_raises)

SpecDelegate == Init /\ [][NextDelegate]_vars

\* The backend sending and clearing single notifications, beside the OS
\* delivering and removing.
NextClear ==
    \/ Construct
    \/ SendSteps
    \/ \E n \in Notifications : Clear(n)
    \/ \E i \in PlatformIds : OSDeliver(i)
    \/ OSProcessRemoval

SpecClear == Init /\ [][NextClear]_vars

\* The caller asking whether notifications are authorised and requesting
\* that they be, and the OS answering both.
NextAuth ==
    \/ Construct
    \/ HasAuthorisation
    \/ \E s \in AuthorizationStatuses : OSSettingsCallback(s)
    \/ HasAuthorisationReturn
    \/ \E callback \in BOOLEAN : RequestAuthorisation(callback)
    \/ \E granted \in BOOLEAN, e \in NSErrors \cup {Nil} : OSAuthCompleted(granted, e)

SpecAuth == Init /\ [][NextAuth]_vars

\* The blocking operations alone.  The OS calls every completion handler it
\* was given, and the calling thread runs on whenever its Future is done.
NextBlocking ==
    \/ Construct
    \/ SendSteps
    \/ HasAuthorisation
    \/ HasAuthorisationReturn

SpecBlocking ==
    /\ Init
    /\ [][NextBlocking]_vars
    /\ WF_vars(\E s \in AuthorizationStatuses : OSSettingsCallback(s))
    /\ WF_vars(OSCategoriesCallback)
    /\ WF_vars(\E e \in NSErrors \cup {Nil} : OSAddCallback(e))
    /\ WF_vars(SendAfterAuthorisation)
    /\ WF_vars(SendAfterCategories)
    /\ WF_vars(SendReturn)
    /\ WF_vars(HasAuthorisationReturn)

\* category_id on every pair of notification shapes.
InitKey ==
    /\ BackendInit
    /\ shapeA \in Shapes
    /\ shapeB \in Shapes
    /\ keyA = Unresolved
    /\ keyB = Unresolved

ResolveCategoryKeys ==
    /\ keyA = Unresolved
    /\ keyA' = category_id(shapeA.buttons, shapeA.reply_field)
    /\ keyB' = category_id(shapeB.buttons, shapeB.reply_field)
    /\ UNCHANGED <<backendVars, osVars, delegate, authVars, shapeA, shapeB>>

NextKey == ResolveCategoryKeys

SpecKey == InitKey /\ [][NextKey]_vars

\* ------------------------------------------------------------- claims
\* The names of the OS calls in a call trace, and how often one occurs.
CallCount(calls, name) == Cardinality({i \in 1..Len(calls) : calls[i][1] = name})

RegistrationCalls ==
    {"getNotificationCategoriesWithCompletionHandler",
     "setNotificationCategories", "addNotificationRequest"}

\* The authorization statuses that grant nothing: not determined, denied.
NotGranted == {0, 1}

\* C1: a response whose platform identifier is not a key of the lookup
\* invokes no callback and raises no error.
C1_UnknownIdentifierDropped ==
    (delegate.handled /\ delegate.notification = None)
        => (delegate.invoked = << >> /\ delegate.error = None)

\* C2: for every response delivered to the delegate the completion handler
\* is invoked exactly once, whatever the identifier and the callback did.
C2_CompletionHandlerOnce ==
    delegate.handled => delegate.completions = 1

\* C3: when has_authorisation returns in send with a status that grants
\* nothing, send raises "Not authorised" having issued the settings query and
\* no registration call, and the OS state is as it was.
C3_NotAuthorisedNoRegistration ==
    [][(/\ op = "send"
        /\ pc = "has_authorisation"
        /\ future.state = "done"
        /\ future.value \in NotGranted
        /\ pc' # pc)
       => (/\ pc' = "idle"
           /\ result' = [kind |-> "raised", value |-> "Not authorised"]
           /\ \A i \in 1..Len(osCalls') : osCalls'[i][1] \notin RegistrationCalls
           /\ osCategories' = osCategories
           /\ osRequests' = osRequests
           /\ osCallback' = None)]_vars

C3_Witness ==
    /\ op = "send"
    /\ pc = "idle"
    /\ result = [kind |-> "raised", value |-> "Not authorised"]
    /\ future.value \in NotGranted
    /\ osCalls = << <<"getNotificationSettingsWithCompletionHandler", None>> >>

\* C4: no step removes a category from the OS category set: after any
\* backend operation the set is a superset of what it was.
C4_CategoriesAdditive ==
    [][osCategories \subseteq osCategories']_vars

\* C5: once send has returned, the identifier it returned is a key of the
\* lookup, mapped to the notification sent, and is the identifier the request
\* was posted under, so a response carrying it resolves to that notification.
C5_ReturnedIdentifierInLookup ==
    (op = "send" /\ pc = "idle" /\ result.kind = "returned")
        => (/\ HasKey(lookup, result.value)
            /\ lookup[result.value] = call.notification
            /\ osCalls[Len(osCalls)] = <<"addNotificationRequest", result.value>>)

C5_Witness ==
    /\ op = "send"
    /\ pc = "idle"
    /\ result.kind = "returned"
    /\ call.notification_to_replace # None
    /\ call.notification # call.notification_to_replace
    /\ lookup[result.value] = call.notification

\* C6: a send with a notification to replace posts its request under, and
\* returns, the identifier the replaced notification's own send returned; a
\* send without one uses an identifier no send has returned before.
C6_ReplaceReusesIdentifier ==
    (op = "send" /\ call.platform_nid # None)
        => (/\ call.notification_to_replace # None
                => (/\ call.platform_nid = identifier[call.notification_to_replace]
                    /\ call.platform_nid \in returnedIds)
            /\ (call.notification_to_replace = None /\ pc # "idle")
                => (/\ call.platform_nid \notin returnedIds
                    /\ ~HasKey(lookup, call.platform_nid))
            /\ CallCount(osCalls, "addNotificationRequest") = 1
                => osCalls[Len(osCalls)] = <<"addNotificationRequest", call.platform_nid>>
            /\ (pc = "idle" /\ result.kind = "returned")
                => result.value = call.platform_nid)

C6_Witness ==
    /\ op = "send"
    /\ pc = "idle"
    /\ call.notification_to_replace # None
    /\ result = [kind |-> "returned",
                 value |-> identifier[call.notification_to_replace]]

\* C7: the delegate tries default-click, dismiss, the reserved reply and only
\* then the button titles: a reserved action identifier invokes on_clicked,
\* on_dismissed or on_replied if set and nothing else, also when a button of
\* the notification has that identifier as its title.
C7_DispatchPrecedence ==
    (delegate.handled /\ delegate.notification # None)
        => LET d == NotificationData[delegate.notification]
               a == delegate.actionIdentifier
               titles == {PyStr(d.buttons[i]) : i \in 1..Len(d.buttons)}
           IN /\ a = UNNotificationDefaultActionIdentifier
                  => delegate.invoked =
                        IF d.on_clicked THEN << <<"on_clicked", None>> >> ELSE << >>
              /\ a = UNNotificationDismissActionIdentifier
                  => delegate.invoked =
                        IF d.on_dismissed THEN << <<"on_dismissed", None>> >> ELSE << >>
              /\ a = ReplyActionIdentifier
                  => delegate.invoked =
                        IF d.on_replied THEN << <<"on_replied", None>> >> ELSE << >>
              /\ a \notin {UNNotificationDefaultActionIdentifier,
                           UNNotificationDismissActionIdentifier,
                           ReplyActionIdentifier}
                  => delegate.invoked =
                        IF a \in titles THEN << <<"buttons", a>> >> ELSE << >>

C7_Witness ==
    /\ delegate.handled
    /\ delegate.notification = "n2"
    /\ delegate.actionIdentifier = UNNotificationDefaultActionIdentifier
    /\ \E i \in 1..Len(NotificationData["n2"].buttons) :
          PyStr(NotificationData["n2"].buttons[i]) = delegate.actionIdentifier
    /\ delegate.invoked = << <<"on_clicked", None>> >>

\* C8: two notifications get the same category key exactly when they have
\* the same button titles in the same order and the same reply_field.
SameShape(a, b) ==
    /\ Len(a.buttons) = Len(b.buttons)
    /\ \A i \in 1..Len(a.buttons) : PyStr(a.buttons[i]) = PyStr(b.buttons[i])
    /\ a.reply_field = b.reply_field

C8_CategoryKeyInjective ==
    keyA # Unresolved => ((keyA = keyB) <=> SameShape(shapeA, shapeB))

C8_Witness ==
    /\ keyA # Unresolved
    /\ shapeA.buttons = << <<"a", SQ, ", ", SQ, "b">> >>
    /\ shapeB.buttons = << <<"a">>, <<"b">> >>
    /\ shapeA.reply_field = shapeB.reply_field
    /\ keyA # keyB

\* C9: once send has posted its request and returned or raised: a non-empty
\* error description from the OS made it raise that description, an empty one
\* made it return the identifier, and the request was posted once.
C9_RejectionRaisesOnce ==
    (op = "send" /\ pc = "idle" /\ call.platform_nid # None)
        => (/\ future.value # ""
                => result = [kind |-> "raised", value |-> future.value]
            /\ future.value = ""
                => result = [kind |-> "returned", value |-> call.platform_nid]
            /\ CallCount(osCalls, "addNotificationRequest") = 1)

C9_Witness ==
    /\ op = "send"
    /\ pc = "idle"
    /\ call.platform_nid # None
    /\ future.value = "rejected"
    /\ result = [kind |-> "raised", value |-> "rejected"]

\* C10: a clear_all hands the OS one remove-all-delivered request and has
\* returned while the OS still holds it; the requests the OS holds, the
\* categories and the lookup are as before; and the OS, carrying the request
\* out, keeps every request it has not delivered.
C10_ClearAllOneRequest ==
    [][/\ (op' = "clear_all" /\ osRemovalQueue' # osRemovalQueue
              /\ Len(osRemovalQueue') >= Len(osRemovalQueue))
          => (/\ osRemovalQueue' =
                    Append(osRemovalQueue,
                           <<"removeAllDeliveredNotifications", None>>)
              /\ CallCount(osCalls', "removeAllDeliveredNotifications") = 1
              /\ Len(osCalls') = 1
              /\ pc' = "idle"
              /\ result' = [kind |-> "returned", value |-> None]
              /\ osRequests' = osRequests
              /\ osCategories' = osCategories
              /\ lookup' = lookup)
       /\ Len(osRemovalQueue') < Len(osRemovalQueue)
          => \A i \in DOMAIN osRequests :
                ~osRequests[i].delivered
                    => (i \in DOMAIN osRequests' /\ osRequests'[i] = osRequests[i])
      ]_vars

C10_Witness ==
    /\ op = "clear_all"
    /\ pc = "idle"
    /\ result.kind = "returned"
    /\ osRemovalQueue = << <<"removeAllDeliveredNotifications", None>> >>
    /\ Delivered # {}
    /\ DOMAIN osRequests \ Delivered # {}

\* C11: has_authorisation has not returned while its settings query is
\* unanswered, and once it has returned, after that one query, its value is
\* true exactly when the status reported is authorized, provisional or
\* ephemeral.
C11_HasAuthorisationAfterSettings ==
    op = "has_authorisation"
        => /\ osCalls = << <<"getNotificationSettingsWithCompletionHandler", None>> >>
           /\ future.state = "pending" => (pc = "has_authorisation" /\ result = NoResult)
           /\ pc = "idle"
                => /\ future.state = "done"
                   /\ result.kind = "returned"
                   /\ result.value =
                         (future.value \in {UNAuthorizationStatusAuthorized,
                                            UNAuthorizationStatusProvisional,
                                            UNAuthorizationStatusEphemeral})

C11_Witness ==
    /\ op = "has_authorisation"
    /\ pc = "idle"
    /\ future.value = UNAuthorizationStatusProvisional
    /\ result = [kind |-> "returned", value |-> TRUE]

\* C12: request_authorisation has returned, without raising, while the OS
\* still holds the request unanswered; and when the OS answers a request,
\* a supplied callback is invoked once with the granted flag and a reason
\* that is empty exactly when the OS reported no error, no callback is
\* invoked when none was supplied, and the answer raises nothing in the
\* backend whatever it reports.
C12_RequestAuthorisationCallbackOnce ==
    [][/\ (op' = "request_authorisation"
              /\ Len(osAuthRequests') > Len(osAuthRequests))
          => (/\ osCalls' = << <<"requestAuthorizationWithOptions", None>> >>
              /\ pc' = "idle"
              /\ result' = [kind |-> "returned", value |-> None]
              /\ authCompleted' = authCompleted)
       /\ Len(osAuthRequests') < Len(osAuthRequests)
          => LET completed == authCompleted'
             IN /\ completed.handled
                /\ completed.callback = Head(osAuthRequests).callback
                /\ completed.callback
                      => (/\ Len(completed.invoked) = 1
                          /\ completed.invoked[1][1] = completed.granted
                          /\ (completed.invoked[1][2] = "") = (completed.error = Nil))
                /\ ~completed.callback => completed.invoked = << >>
                /\ result' = result
                /\ pc' = pc
      ]_vars

C12_Witness ==
    /\ op = "request_authorisation"
    /\ result = [kind |-> "returned", value |-> None]
    /\ authCompleted.handled
    /\ authCompleted.callback
    /\ authCompleted.error # Nil
    /\ authCompleted.invoked = << <<FALSE, "rejected">> >>

\* The completion handler a blocked call is waiting for at each place.
AwaitedCallback ==
    CASE pc = "has_authorisation" -> "settings"
      [] pc = "_get_notification_categories" -> "categories"
      [] pc = "addNotificationRequest" -> "add"
      [] OTHER -> None

\* C13: every wait of has_authorisation, of the category query and of send
\* is on a new Future; while that Future is pending the call stays where it
\* is, and only the OS callback of that request, which is then used up,
\* resolves it; a resolved Future is not resolved again; and when the OS
\* calls every handler it was given, every call that has started ends, a
\* send by returning or raising.
C13_BlockingCallsEnd ==
    /\ [][/\ (pc' # pc /\ pc' # "idle") => future' = PendingFuture
          /\ (pc # "idle" /\ future.state = "pending")
                => /\ osCallback = AwaitedCallback
                   /\ pc' = pc
                   /\ result' = NoResult
                   /\ future' # future
                         => (future'.state = "done" /\ osCallback' = None)
          /\ (future.state = "done" /\ future' # future)
                => (future' = PendingFuture /\ pc' # "idle")
         ]_vars
    /\ (pc # "idle") ~> (pc = "idle" /\ result.kind \in {"returned", "raised"})

C13_Witness ==
    /\ op = "send"
    /\ pc = "idle"
    /\ result.kind = "returned"
    /\ future.state = "done"
    /\ CallCount(osCalls, "getNotificationSettingsWithCompletionHandler") = 1
    /\ CallCount(osCalls, "getNotificationCategoriesWithCompletionHandler") = 1
    /\ CallCount(osCalls, "addNotificationRequest") = 1

\* Whether a notification has buttons or a reply field.
HasCategory(n) ==
    NotificationData[n].buttons # << >> \/ NotificationData[n].reply_field

\* C14: an authorised send of a notification with buttons or a reply field
\* puts a new category query to the OS before anything else; when the
\* answer is in, it calls setNotificationCategories, with the answer and the
\* key added, exactly when the key is not in that answer, and then posts
\* the request; and with no other process changing the categories, no
\* category is registered twice however many sends share its shape.
C14_CategoryRegisteredOnce ==
    /\ [][/\ (op = "send" /\ pc = "has_authorisation" /\ pc' \notin {pc, "idle"})
                => IF HasCategory(call.notification)
                   THEN /\ pc' = "_get_notification_categories"
                        /\ future' = PendingFuture
                        /\ osCalls' = Append(osCalls,
                              <<"getNotificationCategoriesWithCompletionHandler", None>>)
                        /\ osCategories' = osCategories
                   ELSE /\ pc' = "addNotificationRequest"
                        /\ osCategories' = osCategories
          /\ (pc = "_get_notification_categories" /\ pc' # pc)
                => /\ future.state = "done"
                   /\ osCalls[Len(osCalls)][1] =
                         "getNotificationCategoriesWithCompletionHandler"
                   /\ IF call.category_id \notin future.value
                      THEN /\ osCalls' = osCalls \o
                                << <<"setNotificationCategories",
                                     future.value \cup {call.category_id}>>,
                                   <<"addNotificationRequest", call.platform_nid>> >>
                           /\ registered' = Append(registered, call.category_id)
                      ELSE /\ osCalls' = Append(osCalls,
                                <<"addNotificationRequest", call.platform_nid>>)
                           /\ registered' = registered
                           /\ osCategories' = osCategories
         ]_vars
    /\ [](\A i, j \in DOMAIN registered : i # j => registered[i] # registered[j])

C14_Witness ==
    /\ op = "send"
    /\ pc = "idle"
    /\ result.kind = "returned"
    /\ sendCount = 2
    /\ registered = <<call.category_id>>
    /\ CallCount(osCalls, "getNotificationCategoriesWithCompletionHandler") = 1
    /\ CallCount(osCalls, "setNotificationCategories") = 0

\* C15: a clear of a notification that a send returned an identifier for
\* makes one OS call, the removal of the delivered notification with that
\* identifier and no other, and has returned while the OS still holds the
\* removal unprocessed; the OS, carrying it out, removes at most the
\* request with that identifier.
C15_ClearRemovesReturnedIdentifier ==
    [][/\ (op' = "clear" /\ Len(osRemovalQueue') > Len(osRemovalQueue))
          => LET n == call'.notification
             IN /\ identifier[n] \in returnedIds
                /\ osCalls' =
                      << <<"removeDeliveredNotificationsWithIdentifiers",
                           identifier[n]>> >>
                /\ osRemovalQueue' = osRemovalQueue \o osCalls'
                /\ pc' = "idle"
                /\ result' = [kind |-> "returned", value |-> None]
                /\ osRequests' = osRequests
                /\ identifier' = identifier
                /\ lookup' = lookup
       /\ (/\ Len(osRemovalQueue') < Len(osRemovalQueue)
           /\ Head(osRemovalQueue)[1] = "removeDeliveredNotificationsWithIdentifiers")
          => \A i \in DOMAIN osRequests :
                i # Head(osRemovalQueue)[2]
                    => (i \in DOMAIN osRequests' /\ osRequests'[i] = osRequests[i])
      ]_vars

C15_Witness ==
    /\ op = "clear"
    /\ pc = "idle"
    /\ result.kind = "returned"
    /\ identifier[call.notification] \in Delivered
    /\ osRemovalQueue =
          << <<"removeDeliveredNotificationsWithIdentifiers",
               identifier[call.notification]>> >>

ReservedActionIdentifiers ==
    {UNNotificationDefaultActionIdentifier, UNNotificationDismissActionIdentifier,
     ReplyActionIdentifier}

\* Whether the notification has the callback named in an invocation.
Owns(n, invocation) ==
    CASE invocation[1] = "on_clicked" -> NotificationData[n].on_clicked
      [] invocation[1] = "on_dismissed" -> NotificationData[n].on_dismissed
      [] invocation[1] = "on_replied" -> NotificationData[n].on_replied
      [] invocation[1] = "buttons" ->
             ButtonIndex(NotificationData[n].buttons, invocation[2]) # 0
      [] OTHER -> FALSE

\* C16: a response makes the delegate invoke at most one callback; a
\* callback it invokes is one of the notification that the lookup maps the
\* response's identifier to; and for an action identifier that is not
\* reserved and is not the title of a button of that notification it invokes
\* none.
C16_AtMostOneOwnCallback ==
    [][delegate' # delegate
        => LET response == delegate'
           IN /\ Len(response.invoked) <= 1
              /\ response.invoked # << >>
                    => /\ HasKey(lookup, response.nid)
                       /\ response.notification = lookup[response.nid]
                       /\ Owns(lookup[response.nid], response.invoked[1])
              /\ (/\ HasKey(lookup, response.nid)
                  /\ response.actionIdentifier \notin ReservedActionIdentifiers
                  /\ ButtonIndex(NotificationData[lookup[response.nid]].buttons,
                                 response.actionIdentifier) = 0)
                    => response.invoked = << >>
      ]_vars

C16_Witness ==
    /\ delegate.handled
    /\ delegate.notification = "n2"
    /\ delegate.actionIdentifier = "Yes"
    /\ delegate.invoked = << <<"buttons", "Yes">> >>

====
